---- MODULE Spec2Model ----
(***************************************************************************)
(* Model of astrbot_plugin_group_chat: the message pipeline and the status  *)
(* command of GroupChatPlugin (main.py), and the response gate and the     *)
(* persona cache of ResponseEngine (src/response_engine.py).               *)
(*                                                                         *)
(* Five specifications over the same state: Spec (messages one at a time,  *)
(* all inputs), SpecConc (two invocations interleaved), SpecEntry (messages *)
(* and the status command), SpecTerm (teardown during an invocation),      *)
(* SpecPersona (the persona cache under a clock).                          *)
(*                                                                         *)
(* Text is a sequence of one-character strings, so that str.strip() and    *)
(* the substring test `m in text` are computed, not assumed.  A Python     *)
(* value that may be None, missing or a string is a record [kind, val].    *)
(***************************************************************************)
EXTENDS Integers, Sequences, FiniteSets, TLC

(***************************************************************************)
(* Python values                                                           *)
(***************************************************************************)
AbsentVal == [kind |-> "absent", val |-> <<>>]

NoneVal == [kind |-> "none", val |-> <<>>]

Str(s) == [kind |-> "str", val |-> s]

\* Python truthiness of None / missing / a string: only a non-empty string.
Truthy(v) == v.kind = "str" /\ v.val # <<>>

\* getattr(obj, name, default) on an attribute that may be missing.
Getattr(attr, default) == IF attr.kind = "absent" THEN default ELSE attr

(***************************************************************************)
(* Text                                                                    *)
(***************************************************************************)
Whitespace == {" ", "\n"}

RECURSIVE LStrip(_)
LStrip(s) ==
  IF s # <<>> /\ Head(s) \in Whitespace THEN LStrip(Tail(s)) ELSE s

RECURSIVE RStrip(_)
RStrip(s) ==
  IF s # <<>> /\ s[Len(s)] \in Whitespace
  THEN RStrip(SubSeq(s, 1, Len(s) - 1))
  ELSE s

\* str.strip(): leading and trailing whitespace removed.
Strip(s) == RStrip(LStrip(s))

\* Python `m in s` on strings: m occurs in s as a contiguous substring.
Contains(m, s) ==
  \E i \in 0..(Len(s) - Len(m)) : SubSeq(s, i + 1, i + Len(m)) = m

\* The two literals both checks always add to the configured marker.
NO_RESPONSE == <<"<", "N", "O", "_", "R", "E", "S", "P", "O", "N", "S", "E", ">">>

DO_NOT_REPLY == <<"[", "D", "O", "_", "N", "O", "T", "_", "R", "E", "P", "L", "Y", "]">>

\* Mutant: the literals only stand in for a configured marker that is not
\* set.
MarkersConfiguredFirst(cfg) ==
  LET m == Getattr(cfg.air_reading_no_reply_marker, NoneVal)
  IN IF Truthy(m) THEN <<m>> ELSE <<Str(NO_RESPONSE), Str(DO_NOT_REPLY)>>

\* [m for m in [cfg_marker, "<NO_RESPONSE>", "[DO_NOT_REPLY]"] if m]
Markers(cfg) ==
  SelectSeq(<<Getattr(cfg.air_reading_no_reply_marker, NoneVal),
              Str(NO_RESPONSE), Str(DO_NOT_REPLY)>>, Truthy)

\* any(m in text for m in markers)
AnyMarkerIn(markers, text) ==
  \E k \in 1..Len(markers) : Contains(markers[k].val, text)

(***************************************************************************)
(* ResponseEngine (src/response_engine.py)                                 *)
(*                                                                         *)
(* A provider outcome is what the attempt to get a completion yields:      *)
(*   "missing"  context.get_using_provider() returned nothing,             *)
(*   "raise"    provider.text_chat raised,                                 *)
(*   "text"     it returned; val is completion_text (<<>> also stands for  *)
(*              a missing response object or a None completion_text).      *)
(***************************************************************************)
Missing == [kind |-> "missing", val |-> <<>>]

Raise == [kind |-> "raise", val |-> <<>>]

Text(t) == [kind |-> "text", val |-> t]

\* The fixed replies of _generate_normal_response (Chinese sentences in the
\* source, lines 350 and 375; kept here as two distinct non-empty texts).
APOLOGY_NO_PROVIDER == <<"s", "o", "r", "r", "y", ",", " ", "l", "a", "t", "e", "r">>

APOLOGY_EXCEPTION == <<"s", "o", "r", "r", "y", ",", " ", "a", "g", "a", "i", "n", "?">>

\* str(None), what an f-string prints for None.
NONE_TEXT == <<"N", "o", "n", "e">>

\* f"{value}" of None or a string.
FormatValue(v) == IF v.kind = "none" THEN NONE_TEXT ELSE v.val

\* _build_air_reading_prompt, lines 247 and 274: the marker the prompt asks
\* the model to answer with when it declines.  Nothing else in the prompt
\* comes from the configuration or from should_respond.
BuildAirReadingPrompt(cfg, will) ==
  [no_reply_marker |->
     Str(FormatValue(Getattr(cfg.air_reading_no_reply_marker,
                             Str(DO_NOT_REPLY))))]

\* _call_llm_for_air_reading: every failure, and an empty completion, is "".
CallLlmForAirReading(outcome) ==
  CASE outcome.kind = "missing" -> <<>>
    [] outcome.kind = "raise" -> <<>>
    [] OTHER -> IF outcome.val # <<>> THEN outcome.val ELSE <<>>

\* Mutant: the completion is stripped, as on the adjudicated path.
GenerateNormalResponseStripped(outcome) ==
  CASE outcome.kind = "missing" -> APOLOGY_NO_PROVIDER
    [] outcome.kind = "raise" -> APOLOGY_EXCEPTION
    [] OTHER -> IF outcome.val # <<>> THEN Strip(outcome.val) ELSE <<>>

\* _generate_normal_response: an apology when the provider is missing or
\* raises, the completion when it is non-empty, "" when it is empty.
GenerateNormalResponse(outcome) ==
  CASE outcome.kind = "missing" -> APOLOGY_NO_PROVIDER
    [] outcome.kind = "raise" -> APOLOGY_EXCEPTION
    [] OTHER -> IF outcome.val # <<>> THEN outcome.val ELSE <<>>

\* Mutant: the completion is the reply as it came, not stripped.
GenerateWithAirReadingNoStrip(cfg, will, outcome) ==
  LET llm_response == CallLlmForAirReading(outcome)
  IN IF AnyMarkerIn(Markers(cfg), llm_response)
     THEN [should_reply |-> FALSE,
           content |-> NoneVal,
           decision_method |-> "air_reading",
           llm_response |-> Str(llm_response),
           skip_reason |-> Str(<<"LLM decided to skip">>),
           willingness_score |-> will.willingness_score]
     ELSE [should_reply |-> TRUE,
           content |-> Str(llm_response),
           decision_method |-> "air_reading",
           llm_response |-> Str(llm_response),
           skip_reason |-> AbsentVal,
           willingness_score |-> will.willingness_score]

\* _generate_with_air_reading: the markers are looked for in the stripped
\* completion; without one the stripped completion is the reply.
GenerateWithAirReading(cfg, will, outcome) ==
  LET llm_response == CallLlmForAirReading(outcome)
      no_reply_markers == Markers(cfg)
      resp_text == Strip(llm_response)
  IN IF AnyMarkerIn(no_reply_markers, resp_text)
     THEN [should_reply |-> FALSE,
           content |-> NoneVal,
           decision_method |-> "air_reading",
           llm_response |-> Str(llm_response),
           skip_reason |-> Str(<<"LLM decided to skip">>),
           willingness_score |-> will.willingness_score]
     ELSE [should_reply |-> TRUE,
           content |-> Str(resp_text),
           decision_method |-> "air_reading",
           llm_response |-> Str(llm_response),
           skip_reason |-> AbsentVal,
           willingness_score |-> will.willingness_score]

\* generate_response reaches a provider on the adjudicated path and on a
\* positive threshold verdict, and returns at once otherwise.
NeedsProvider(will) == will.requires_llm_decision \/ will.should_respond

\* generate_response: the adjudicated path when requires_llm_decision is
\* set, else the threshold path on should_respond.
GenerateResponse(cfg, will, outcome) ==
  IF will.requires_llm_decision
  THEN GenerateWithAirReading(cfg, will, outcome)
  ELSE IF will.should_respond
       THEN [should_reply |-> TRUE,
             content |-> Str(GenerateNormalResponse(outcome)),
             decision_method |-> "threshold",
             llm_response |-> AbsentVal,
             skip_reason |-> AbsentVal,
             willingness_score |-> will.willingness_score]
       ELSE [should_reply |-> FALSE,
             content |-> NoneVal,
             decision_method |-> "threshold",
             llm_response |-> AbsentVal,
             skip_reason |-> AbsentVal,
             willingness_score |-> will.willingness_score]

(***************************************************************************)
(* Collaborators of main.py whose code is outside the two source files:    *)
(* modelled from the specification.  Scores are percentages.               *)
(***************************************************************************)
DEFAULT_MAX_CONSECUTIVE == 3

OBSERVATION_THRESHOLD == 20

MIN_INTEREST == 60

WILLINGNESS_THRESHOLD == 50

BAND_LOW == 45

BAND_HIGH == 60

\* getattr(self.config, 'max_consecutive_responses', 3); 0 stands for a
\* configuration without the attribute.
MaxConsecutive(cfg) ==
  IF cfg.max_consecutive_responses = 0
  THEN DEFAULT_MAX_CONSECUTIVE
  ELSE cfg.max_consecutive_responses

\* GroupListManager.check_group_permission
CheckGroupPermission(cfg, g) == g \in cfg.allowed

\* InteractionManager.determine_interaction_mode
DetermineInteractionMode(ctx) ==
  IF ctx.group_activity < OBSERVATION_THRESHOLD THEN "observation"
  ELSE IF ctx.focus >= MIN_INTEREST THEN "focus"
  ELSE "normal"

\* WillingnessCalculator.calculate_response_willingness, from the effective
\* score: the threshold verdict, and adjudication inside the band.
CalculateWillingness(effective) ==
  [willingness_score |-> effective,
   should_respond |-> effective >= WILLINGNESS_THRESHOLD,
   requires_llm_decision |-> effective >= BAND_LOW /\ effective < BAND_HIGH]

\* StateManager.set_group_umo
SetGroupUmo(umo, g) == umo \cup {g}

\* ActiveChatManager.ensure_flow
EnsureFlow(flows, g) == flows \cup {g}

\* Mutant: the message is not given to the flow's rate tracker.
OnMessageDropped(rates, g) == rates

\* GroupFlow.on_message: one more message in the group's rate tracker.
OnMessage(rates, g) == [rates EXCEPT ![g] = @ + 1]

\* ActiveChatManager.stop_all_flows
StopAllFlows(flows) == {}

\* StateManager.clear_all_state, on the counters
ClearAllState(counters) == [g \in DOMAIN counters |-> 0]

\* StateManager.increment_consecutive_response
IncrementConsecutive(counters, g) == [counters EXCEPT ![g] = @ + 1]

\* Mutant: no reset on arrival.
NoResetOnHumanMessage(counters, g, human) == counters

\* The reset of the consecutive-reply counter on a message from a human.
ResetOnHumanMessage(counters, g, human) ==
  IF human THEN [counters EXCEPT ![g] = 0] ELSE counters

(***************************************************************************)
(* Bounds and input sets                                                   *)
(***************************************************************************)
MaxMsgs == 4

Handlers == {"h1", "h2"}

Groups == {"g1", "g2"}

SKIP == <<"S", "K", "I", "P">>

HI == <<"h", "i">>

OK == <<"o", "k">>

\* Context snapshots and effective scores a message can come with.
Contexts == [group_activity : {10, 50}, focus : {30, 80}]

Scores == {10, 48, 52, 90}

\* Completions of the provider: a core, alone or with text before and
\* after it.  The cores are nothing, plain words, each marker, "None", and
\* a marker cut short.
Before == {<<>>, OK \o <<" ">>}

After == {<<>>, <<" ">>, <<" ">> \o OK}

Cores ==
  {<<>>, HI, NO_RESPONSE, DO_NOT_REPLY, SKIP, NONE_TEXT,
   SubSeq(NO_RESPONSE, 1, Len(NO_RESPONSE) - 1)}

Texts == {p \o c \o q : p \in Before, c \in Cores, q \in After}

Outcomes == {Raise} \cup {Text(t) : t \in Texts}

\* Configurations: the marker attribute missing, None, empty, a word, and a
\* word with a trailing blank; the cap missing (0) or 1; one group allowed.
Configs ==
  [air_reading_no_reply_marker :
     {AbsentVal, NoneVal, Str(<<>>), Str(SKIP), Str(SKIP \o <<" ">>)},
   max_consecutive_responses : {0, 1},
   allowed : {{"g1"}}]

\* Personas: two names, and for each what provider_manager.personas holds:
\* no persona of that name, a persona with an empty prompt, or one with a
\* prompt.
PersonaNames == {"p1", "p2"}

Prompts == {<<"A">>, <<"B">>}

PersonaData == {AbsentVal, Str(<<>>)} \cup {Str(p) : p \in Prompts}

\* The clock runs from 0 to MaxClock in steps of TickStep seconds.
MaxClock == 400

TickStep == 100

(***************************************************************************)
(* State                                                                   *)
(***************************************************************************)
VARIABLES
  config,        \* the plugin configuration, fixed at construction
  consecutive,   \* StateManager: group -> consecutive-reply counter
  group_umo,     \* StateManager: groups with a session-origin mapping
  group_flows,   \* ActiveChatManager.group_flows: groups with a heartbeat
  rate,          \* group -> messages given to flow.on_message
  handlers,      \* handler -> the on_group_message invocation it runs
  clock,         \* time.time(), in seconds
  personas,      \* provider_manager.personas: name -> prompt of the persona
  persona_cache, \* ResponseEngine._persona_cache: name -> record
  gone_at,       \* name -> when the cached prompt stopped being the
                 \* persona's prompt (-1: it still is, or nothing cached)
  persona_ret,   \* what the last _resolve_persona_text returned
  terminated     \* terminate(): the steps it took, and where each
                 \* invocation stood when it ran

mvars == <<config, consecutive, group_umo, group_flows, rate, handlers>>

pvars == <<clock, personas, persona_cache, gone_at, persona_ret>>

vars == <<mvars, pvars, terminated>>

NoWill ==
  [willingness_score |-> -1, should_respond |-> FALSE,
   requires_llm_decision |-> FALSE]

NoResult ==
  [should_reply |-> FALSE, content |-> AbsentVal, decision_method |-> "none",
   llm_response |-> AbsentVal, skip_reason |-> AbsentVal,
   willingness_score |-> -1]

\* pc is where the invocation stands: idle; at an await ("ctx", "will",
\* "llm", "fat", "upd"); at its yield, the result with the host ("yield",
\* then "resume"); or returned ("done").  The other fields are its locals
\* and a record of what it did: calls (provider calls), will_calls,
\* cap_seen (the counter read at the cap check, -1 before), yielded,
\* outbound ("sent" / "suppressed" by the outbound hook), incs (counter
\* increments), upd_calls and upd_len (the calls of on_bot_reply_update and
\* the length given to it, -1 before), found (the counter the message found
\* on arrival), is_llm (the host's is_llm_result() of the yielded result),
\* steps (the steps of the pipeline taken so far, in the order they were
\* taken), prompt (the adjudication prompt, once built).
Fresh(g, human) ==
  [pc |-> "idle", group |-> g, human |-> human, permitted |-> FALSE,
   mode |-> "none", will |-> NoWill, cap_seen |-> -1, outcome |-> AbsentVal,
   result |-> NoResult, calls |-> 0, will_calls |-> 0, yielded |-> AbsentVal,
   is_llm |-> FALSE, outbound |-> "none", incs |-> 0, upd_calls |-> 0,
   upd_len |-> -1, found |-> 0, steps |-> <<>>,
   prompt |-> [no_reply_marker |-> AbsentVal]]

\* cache_key not in self._persona_cache
NoRecord == [prompt |-> AbsentVal, timestamp |-> -1]

\* Before the first lookup.  A return holds the three fields of the
\* returned dict and a record of the lookup: at (the clock), hit (served
\* from the cache), stale (for how many seconds the returned prompt had not
\* been the persona's prompt any more; 0 when it still is).
NoReturn ==
  [enabled |-> FALSE, persona_name |-> "", persona_prompt |-> <<>>,
   at |-> -1, hit |-> FALSE, stale |-> 0]

\* terminate() has not run.
NotTerminated == [steps |-> <<>>, at |-> [h \in Handlers |-> "none"]]

\* No persona, an empty persona cache, no lookup made.
PersonaIdle ==
  /\ clock = 0
  /\ personas = [n \in PersonaNames |-> AbsentVal]
  /\ persona_cache = [n \in PersonaNames |-> NoRecord]
  /\ gone_at = [n \in PersonaNames |-> -1]
  /\ persona_ret = NoReturn

Init ==
  /\ config \in Configs
  /\ consecutive = [g \in Groups |-> 0]
  /\ group_umo = {}
  /\ group_flows = {}
  /\ rate = [g \in Groups |-> 0]
  /\ handlers = [h \in Handlers |-> Fresh("none", FALSE)]
  /\ PersonaIdle
  /\ terminated = NotTerminated

(***************************************************************************)
(* GroupChatPlugin (main.py)                                               *)
(***************************************************************************)
\* Mutant: the reply is yielded on should_reply alone, empty or not.
AfterGenerateNoContentCheck(rec, outcome, result) ==
  IF result.should_reply
  THEN [rec EXCEPT !.pc = "yield", !.outcome = outcome, !.result = result,
                   !.yielded = result.content]
  ELSE [rec EXCEPT !.pc = "upd", !.outcome = outcome, !.result = result]

\* _process_group_message, lines 121-145, from the response result on: the
\* reply is yielded when should_reply and the content is non-empty, else
\* the invocation goes on to update_interaction_state.
AfterGenerate(rec, outcome, result) ==
  IF result.should_reply /\ Truthy(result.content)
  THEN [rec EXCEPT !.pc = "yield", !.outcome = outcome, !.result = result,
                   !.yielded = result.content]
  ELSE [rec EXCEPT !.pc = "upd", !.outcome = outcome, !.result = result]

\* Mutant: on_group_message without the return at line 77.
ReceiveNoPermissionCheck(h, g, human) ==
  /\ handlers[h].pc \in {"idle", "done"}
  /\ rate[g] < MaxMsgs
  /\ group_umo' = SetGroupUmo(group_umo, g)
  /\ group_flows' = EnsureFlow(group_flows, g)
  /\ rate' = IF g \in group_flows' THEN OnMessage(rate, g) ELSE rate
  /\ consecutive' = ResetOnHumanMessage(consecutive, g, human)
  /\ handlers' = [handlers EXCEPT ![h] =
                    [Fresh(g, human) EXCEPT
                       !.pc = "ctx",
                       !.permitted = TRUE,
                       !.found = consecutive[g],
                       !.steps =
                         <<"permission", "umo", "ensure_flow">> \o
                         (IF g \in group_flows'
                          THEN <<"on_message">> ELSE <<>>)]]
  /\ UNCHANGED config
  /\ UNCHANGED <<pvars, terminated>>

\* on_group_message up to the first await of _process_group_message.
Receive(h, g, human) ==
  /\ handlers[h].pc \in {"idle", "done"}
  /\ rate[g] < MaxMsgs
  /\ IF ~CheckGroupPermission(config, g)
     THEN /\ handlers' = [handlers EXCEPT ![h] =
                            [Fresh(g, human) EXCEPT
                               !.pc = "done",
                               !.steps = <<"permission">>]]
          /\ UNCHANGED <<consecutive, group_umo, group_flows, rate>>
     ELSE /\ group_umo' = SetGroupUmo(group_umo, g)
          /\ group_flows' = EnsureFlow(group_flows, g)
          /\ rate' = IF g \in group_flows' THEN OnMessage(rate, g) ELSE rate
          /\ consecutive' = ResetOnHumanMessage(consecutive, g, human)
          /\ handlers' = [handlers EXCEPT ![h] =
                            [Fresh(g, human) EXCEPT
                               !.pc = "ctx",
                               !.permitted = TRUE,
                               !.found = consecutive[g],
                               !.steps =
                                 <<"permission", "umo", "ensure_flow">> \o
                                 (IF g \in group_flows'
                                  THEN <<"on_message">> ELSE <<>>)]]
  /\ UNCHANGED config
  /\ UNCHANGED <<pvars, terminated>>

\* Mutant: observation mode goes on like the other modes.
ModeNeverSkips(mode) == FALSE

\* Mutant: the cap is compared with > instead of >=.
CapReachedOffByOne(cfg, count) == count > MaxConsecutive(cfg)

\* Line 102: observation mode returns without a reply.
ModeSkips(mode) == mode = "observation"

\* Mutant: the threshold verdict alone decides, adjudication or not.
WillingnessSkipsOnVerdict(will) == ~will.should_respond

\* Mutant: insufficient willingness goes on to the cap check and the gate.
WillingnessNeverSkips(will) == FALSE

\* Line 109: neither adjudication nor a positive threshold verdict.
WillingnessSkips(will) ==
  ~will.requires_llm_decision /\ ~will.should_respond

\* Lines 113-115: the consecutive-reply cap.
CapReached(cfg, count) == count >= MaxConsecutive(cfg)

\* analyze_chat_context returns; the mode is selected; observation returns.
ContextReturn(h, ctx) ==
  /\ handlers[h].pc = "ctx"
  /\ LET mode == DetermineInteractionMode(ctx)
     IN handlers' = [handlers EXCEPT ![h] =
          [@ EXCEPT !.mode = mode,
                    !.steps = @ \o <<"context", "mode">>,
                    !.pc = IF ModeSkips(mode) THEN "done" ELSE "will"]]
  /\ UNCHANGED <<config, consecutive, group_umo, group_flows, rate>>
  /\ UNCHANGED <<pvars, terminated>>

\* calculate_response_willingness returns; the willingness skip, the cap
\* check, and generate_response up to its provider call.  Without a
\* provider generate_response returns at once.
WillingnessReturn(h, effective, provider) ==
  /\ handlers[h].pc = "will"
  /\ LET rec == handlers[h]
         will == CalculateWillingness(effective)
         rec1 == [rec EXCEPT !.will = will, !.will_calls = @ + 1,
                             !.steps = @ \o <<"willingness">>]
         count == consecutive[rec.group]
         rec2 == [rec1 EXCEPT !.cap_seen = count, !.steps = @ \o <<"cap">>]
         rec3 == [rec2 EXCEPT
                    !.steps = @ \o <<"gate">>,
                    !.prompt = IF will.requires_llm_decision
                               THEN BuildAirReadingPrompt(config, will)
                               ELSE @]
     IN handlers' = [handlers EXCEPT ![h] =
          IF WillingnessSkips(will)
          THEN [rec1 EXCEPT !.pc = "done"]
          ELSE IF CapReached(config, count)
          THEN [rec2 EXCEPT !.pc = "done"]
          ELSE IF ~provider \/ ~NeedsProvider(will)
          THEN AfterGenerate(rec3, Missing,
                             GenerateResponse(config, will, Missing))
          ELSE [rec3 EXCEPT !.pc = "llm", !.calls = @ + 1]]
  /\ UNCHANGED <<config, consecutive, group_umo, group_flows, rate>>
  /\ UNCHANGED <<pvars, terminated>>

\* provider.text_chat returns or raises; generate_response finishes.
ProviderReturn(h, outcome) ==
  /\ handlers[h].pc = "llm"
  /\ handlers' = [handlers EXCEPT ![h] =
       AfterGenerate(@, outcome, GenerateResponse(config, @.will, outcome))]
  /\ UNCHANGED <<config, consecutive, group_umo, group_flows, rate>>
  /\ UNCHANGED <<pvars, terminated>>

\* on_decorating_result on a result: TRUE when it clears the result.
OutboundSuppresses(cfg, is_llm_result, message_text) ==
  is_llm_result /\ AnyMarkerIn(Markers(cfg), message_text)

\* The host takes the yielded plain_result through on_decorating_result and
\* sends what is left.  Whether the host counts a plain_result as an LLM
\* result is the host's choice.
OnDecoratingResult(h, is_llm_result) ==
  /\ handlers[h].pc = "yield"
  /\ handlers' = [handlers EXCEPT ![h] =
       [@ EXCEPT !.pc = "resume",
                 !.is_llm = is_llm_result,
                 !.outbound =
                   IF OutboundSuppresses(config, is_llm_result,
                                         handlers[h].yielded.val)
                   THEN "suppressed" ELSE "sent"]]
  /\ UNCHANGED <<config, consecutive, group_umo, group_flows, rate>>
  /\ UNCHANGED <<pvars, terminated>>

\* The generator resumes after its yield: the counter is incremented and
\* on_bot_reply_update is called with the length of the reply.
Resume(h) ==
  /\ handlers[h].pc = "resume"
  /\ consecutive' = IncrementConsecutive(consecutive, handlers[h].group)
  /\ handlers' = [handlers EXCEPT ![h] =
       [@ EXCEPT !.pc = "fat", !.incs = @ + 1, !.upd_calls = @ + 1,
                 !.upd_len = Len(handlers[h].result.content.val)]]
  /\ UNCHANGED <<config, group_umo, group_flows, rate>>
  /\ UNCHANGED <<pvars, terminated>>

\* on_bot_reply_update returns.
ReplyUpdateReturn(h) ==
  /\ handlers[h].pc = "fat"
  /\ handlers' = [handlers EXCEPT ![h] = [@ EXCEPT !.pc = "upd"]]
  /\ UNCHANGED <<config, consecutive, group_umo, group_flows, rate>>
  /\ UNCHANGED <<pvars, terminated>>

\* update_interaction_state returns, and with it the invocation.
UpdateReturn(h) ==
  /\ handlers[h].pc = "upd"
  /\ handlers' = [handlers EXCEPT ![h] = [@ EXCEPT !.pc = "done"]]
  /\ UNCHANGED <<config, consecutive, group_umo, group_flows, rate>>
  /\ UNCHANGED <<pvars, terminated>>

\* gcstatus, the status command, sent in group g: the session-origin
\* mapping and the heartbeat flow are made sure of, then the status is read
\* and shown.
GcStatus(g) ==
  /\ group_umo' = SetGroupUmo(group_umo, g)
  /\ group_flows' = EnsureFlow(group_flows, g)
  /\ UNCHANGED <<config, consecutive, rate, handlers>>
  /\ UNCHANGED <<pvars, terminated>>

\* Messages handled one at a time: a single invocation in flight.
Next ==
  \E h \in {"h1"} :
    \/ \E g \in Groups, human \in BOOLEAN : Receive(h, g, human)
    \/ \E ctx \in Contexts : ContextReturn(h, ctx)
    \/ \E effective \in Scores, provider \in BOOLEAN :
         WillingnessReturn(h, effective, provider)
    \/ \E outcome \in Outcomes : ProviderReturn(h, outcome)
    \/ \E is_llm_result \in BOOLEAN : OnDecoratingResult(h, is_llm_result)
    \/ Resume(h)
    \/ ReplyUpdateReturn(h)
    \/ UpdateReturn(h)

Spec == Init /\ [][Next]_vars

(***************************************************************************)
(* The same handlers with two invocations in flight, interleaved at their  *)
(* awaits, on small input sets.                                            *)
(***************************************************************************)
ConcConfigs ==
  [air_reading_no_reply_marker : {AbsentVal},
   max_consecutive_responses : {1},
   allowed : {{"g1"}}]

ConcContexts == [group_activity : {10, 50}, focus : {30}]

ConcScores == {10, 52, 90}

ConcOutcomes == {Raise, Text(HI), Text(NO_RESPONSE)}

InitConc ==
  /\ config \in ConcConfigs
  /\ consecutive = [g \in Groups |-> 0]
  /\ group_umo = {}
  /\ group_flows = {}
  /\ rate = [g \in Groups |-> 0]
  /\ handlers = [h \in Handlers |-> Fresh("none", FALSE)]
  /\ PersonaIdle
  /\ terminated = NotTerminated

NextConc ==
  \E h \in Handlers :
    \/ \E g \in Groups, human \in BOOLEAN : Receive(h, g, human)
    \/ \E ctx \in ConcContexts : ContextReturn(h, ctx)
    \/ \E effective \in ConcScores, provider \in BOOLEAN :
         WillingnessReturn(h, effective, provider)
    \/ \E outcome \in ConcOutcomes : ProviderReturn(h, outcome)
    \/ \E is_llm_result \in BOOLEAN : OnDecoratingResult(h, is_llm_result)
    \/ Resume(h)
    \/ ReplyUpdateReturn(h)
    \/ UpdateReturn(h)

SpecConc == InitConc /\ [][NextConc]_vars

(***************************************************************************)
(* Both entry points of the plugin that take a group: messages handled one *)
(* at a time, and the status command, on the small input sets.             *)
(***************************************************************************)
NextEntry ==
  \/ \E g \in Groups : GcStatus(g)
  \/ \E g \in Groups, human \in BOOLEAN : Receive("h1", g, human)
  \/ \E ctx \in ConcContexts : ContextReturn("h1", ctx)
  \/ \E effective \in ConcScores, provider \in BOOLEAN :
       WillingnessReturn("h1", effective, provider)
  \/ \E outcome \in ConcOutcomes : ProviderReturn("h1", outcome)
  \/ \E is_llm_result \in BOOLEAN : OnDecoratingResult("h1", is_llm_result)
  \/ Resume("h1")
  \/ ReplyUpdateReturn("h1")
  \/ UpdateReturn("h1")

SpecEntry == InitConc /\ [][NextEntry]_vars

(***************************************************************************)
(* Teardown: terminate() runs once, at any moment of an invocation; no     *)
(* message arrives after it, and the invocation in flight goes on.         *)
(***************************************************************************)
\* terminate: the flows are stopped, then the state is cleared; there is no
\* await between the two calls.
Terminate ==
  /\ terminated = NotTerminated
  /\ group_flows' = StopAllFlows(group_flows)
  /\ consecutive' = ClearAllState(consecutive)
  /\ group_umo' = {}
  /\ terminated' = [steps |-> <<"stop_all_flows", "clear_all_state">>,
                    at |-> [h \in Handlers |-> handlers[h].pc]]
  /\ UNCHANGED <<config, rate, handlers>>
  /\ UNCHANGED pvars

\* The host delivers messages to the plugin until it is torn down.
ReceiveBeforeTerminate(h, g, human) ==
  /\ terminated = NotTerminated
  /\ Receive(h, g, human)

NextTerm ==
  \/ Terminate
  \/ \E g \in Groups, human \in BOOLEAN :
       ReceiveBeforeTerminate("h1", g, human)
  \/ \E ctx \in ConcContexts : ContextReturn("h1", ctx)
  \/ \E effective \in ConcScores, provider \in BOOLEAN :
       WillingnessReturn("h1", effective, provider)
  \/ \E outcome \in ConcOutcomes : ProviderReturn("h1", outcome)
  \/ \E is_llm_result \in BOOLEAN : OnDecoratingResult("h1", is_llm_result)
  \/ Resume("h1")
  \/ ReplyUpdateReturn("h1")
  \/ UpdateReturn("h1")

SpecTerm == InitConc /\ [][NextTerm]_vars

(***************************************************************************)
(* The persona cache of ResponseEngine._resolve_persona_text, on its own:  *)
(* time passes, personas are edited in the provider manager, and prompts   *)
(* are looked up.                                                          *)
(***************************************************************************)
PERSONA_TTL == 300

\* Mutant: a record of exactly 300 seconds still counts as fresh.
CacheFreshInclusive(record, current_time) ==
  current_time - record.timestamp <= PERSONA_TTL

\* Line 112: current_time - cached.get("timestamp", 0) < 300
CacheFresh(record, current_time) ==
  current_time - record.timestamp < PERSONA_TTL

\* Mutant: a cache hit writes the record again with the current time.
CacheAfterHitRefreshed(cache, name, current_time) ==
  [cache EXCEPT ![name].timestamp = current_time]

\* Lines 109-118: a cache hit returns and leaves the cache as it is.
CacheAfterHit(cache, name, current_time) == cache

\* For how long the cached prompt of persona name has not been its prompt:
\* 0 when it is the prompt now.
StaleFor(name) == IF gone_at[name] < 0 THEN 0 ELSE clock - gone_at[name]

Disabled(name) ==
  [enabled |-> FALSE, persona_name |-> name, persona_prompt |-> <<>>,
   at |-> clock, hit |-> FALSE, stale |-> 0]

\* _resolve_persona_text from line 97 on, for the persona name the
\* conversation or the default selects ("" when there is none).  From the
\* read of the clock to the return there is no await.
ResolvePersonaText(name) ==
  /\ IF name = ""
     THEN /\ persona_ret' = Disabled("")
          /\ UNCHANGED <<persona_cache, gone_at>>
     ELSE IF /\ persona_cache[name] # NoRecord
             /\ CacheFresh(persona_cache[name], clock)
     THEN /\ persona_ret' =
               [enabled |-> TRUE, persona_name |-> name,
                persona_prompt |-> persona_cache[name].prompt,
                at |-> clock, hit |-> TRUE,
                stale |-> StaleFor(name)]
          /\ persona_cache' = CacheAfterHit(persona_cache, name, clock)
          /\ UNCHANGED gone_at
     ELSE IF ~Truthy(personas[name])
     THEN /\ persona_ret' = Disabled(name)
          /\ UNCHANGED <<persona_cache, gone_at>>
     ELSE /\ persona_cache' =
               [persona_cache EXCEPT ![name] =
                  [prompt |-> personas[name].val, timestamp |-> clock]]
          /\ persona_ret' =
               [enabled |-> TRUE, persona_name |-> name,
                persona_prompt |-> personas[name].val,
                at |-> clock, hit |-> FALSE, stale |-> 0]
          /\ gone_at' = [gone_at EXCEPT ![name] = -1]
  /\ UNCHANGED <<clock, personas>>
  /\ UNCHANGED <<mvars, terminated>>

\* The persona is edited, added or removed in the provider manager.
EditPersona(name, data) ==
  /\ data # personas[name]
  /\ personas' = [personas EXCEPT ![name] = data]
  /\ gone_at' =
       IF persona_cache[name] = NoRecord THEN gone_at
       ELSE IF data = Str(persona_cache[name].prompt)
       THEN [gone_at EXCEPT ![name] = -1]
       ELSE IF personas[name] = Str(persona_cache[name].prompt)
       THEN [gone_at EXCEPT ![name] = clock]
       ELSE gone_at
  /\ UNCHANGED <<clock, persona_cache, persona_ret>>
  /\ UNCHANGED <<mvars, terminated>>

\* Time passes.
Tick ==
  /\ clock + TickStep <= MaxClock
  /\ clock' = clock + TickStep
  /\ UNCHANGED <<personas, persona_cache, gone_at, persona_ret>>
  /\ UNCHANGED <<mvars, terminated>>

InitPersona ==
  /\ config \in ConcConfigs
  /\ consecutive = [g \in Groups |-> 0]
  /\ group_umo = {}
  /\ group_flows = {}
  /\ rate = [g \in Groups |-> 0]
  /\ handlers = [h \in Handlers |-> Fresh("none", FALSE)]
  /\ clock = 0
  /\ personas \in [PersonaNames -> PersonaData]
  /\ persona_cache = [n \in PersonaNames |-> NoRecord]
  /\ gone_at = [n \in PersonaNames |-> -1]
  /\ persona_ret = NoReturn
  /\ terminated = NotTerminated

NextPersona ==
  \/ \E name \in PersonaNames \cup {""} : ResolvePersonaText(name)
  \/ \E name \in PersonaNames, data \in PersonaData :
       EditPersona(name, data)
  \/ Tick

SpecPersona == InitPersona /\ [][NextPersona]_vars

(***************************************************************************)
(* Properties                                                              *)
(***************************************************************************)
\* A decline marker occurs in the text: the configured marker, when it is a
\* non-empty string, or one of the two literals.
HasDeclineMarker(text) ==
  \/ /\ Truthy(config.air_reading_no_reply_marker)
     /\ Contains(config.air_reading_no_reply_marker.val, text)
  \/ Contains(NO_RESPONSE, text)
  \/ Contains(DO_NOT_REPLY, text)

\* generate_response has returned in this invocation.
Generated(r) == r.result.decision_method # "none"

\* The provider failed: it is missing, it raised, or its text is empty.
ProviderFailed(r) ==
  \/ r.outcome.kind \in {"missing", "raise"}
  \/ r.outcome.kind = "text" /\ r.outcome.val = <<>>

IsDecline(result) == ~result.should_reply /\ result.content = NoneVal

\* C1: on the adjudicated path every completion that contains a decline
\* marker anywhere gives should_reply = false, content = None and a
\* skip_reason.
C1_MarkerAnywhereDeclines ==
  \A h \in Handlers :
    LET r == handlers[h]
    IN (/\ Generated(r)
        /\ r.will.requires_llm_decision
        /\ r.outcome.kind = "text"
        /\ HasDeclineMarker(r.outcome.val))
       => IsDecline(r.result) /\ Truthy(r.result.skip_reason)

\* C2: no reply that reaches the chat contains a decline marker, on either
\* path.
C2_NoMarkerReachesChat ==
  \A h \in Handlers :
    LET r == handlers[h]
    IN r.outbound = "sent" => ~HasDeclineMarker(r.yielded.val)

\* C3: on the adjudicated path a failed provider gives a decline.
C3_AdjudicatedFailureDeclines ==
  \A h \in Handlers :
    LET r == handlers[h]
    IN (Generated(r) /\ r.will.requires_llm_decision /\ ProviderFailed(r))
       => IsDecline(r.result)

\* C4: on the threshold path a failed provider gives a fixed non-empty
\* apology as content.
C4_ThresholdFailureApologises ==
  \A h \in Handlers :
    LET r == handlers[h]
    IN (/\ Generated(r)
        /\ ~r.will.requires_llm_decision
        /\ r.will.should_respond
        /\ ProviderFailed(r))
       => /\ r.result.content \in
               {Str(APOLOGY_NO_PROVIDER), Str(APOLOGY_EXCEPTION)}
          /\ r.result.content.val # <<>>

\* The invocation has passed its yield: the generator was resumed.
Resumed(r) == r.pc \in {"fat", "upd", "done"} /\ r.yielded # AbsentVal

\* C5: with the counter at or above the cap no invocation of the group is
\* at the provider or at its yield, and an invocation whose cap check read
\* such a counter returned without provider call, reply or increment.
C5_CapBlocksReply ==
  \A h \in Handlers :
    LET r == handlers[h]
    IN /\ (r.permitted /\ consecutive[r.group] >= MaxConsecutive(config))
            => r.pc \notin {"llm", "yield", "resume"}
       /\ r.cap_seen >= MaxConsecutive(config)
            => /\ r.pc = "done"
               /\ r.calls = 0
               /\ r.yielded = AbsentVal
               /\ r.result = NoResult
               /\ r.incs = 0

\* The default cap of 3 was reached, and the cap check stopped an
\* invocation whose willingness was maximal.
C5_Witness ==
  \E h \in Handlers :
    /\ handlers[h].cap_seen >= MaxConsecutive(config)
    /\ handlers[h].will.willingness_score = 90
    /\ consecutive[handlers[h].group] = DEFAULT_MAX_CONSECUTIVE

\* What a step of invocation h does to the counter and to
\* on_bot_reply_update, by where the invocation stood.
C6_StepOf(h) ==
  LET r == handlers[h]
      q == handlers'[h]
  IN /\ r.pc = "resume" =>
          /\ consecutive' = [consecutive EXCEPT ![r.group] = @ + 1]
          /\ q.incs = 1 /\ q.upd_calls = 1
          /\ q.upd_len = Len(r.yielded.val)
          /\ q.upd_len > 0
     /\ (r.pc \notin {"resume", "idle", "done"}) =>
          /\ consecutive' = consecutive
          /\ q.incs = r.incs /\ q.upd_calls = r.upd_calls
     /\ (r.pc \in {"idle", "done"}) =>
          /\ \A g \in Groups : consecutive'[g] \in {consecutive[g], 0}
          /\ q.incs = 0 /\ q.upd_calls = 0
     /\ (q.pc = "done" /\ q.yielded = AbsentVal) =>
          q.incs = 0 /\ q.upd_calls = 0
     /\ (q.pc = "done" /\ q.yielded # AbsentVal) =>
          q.incs = 1 /\ q.upd_calls = 1

C6_WitnessNoReply ==
  \E h \in Handlers :
    /\ handlers[h].pc = "done"
    /\ Generated(handlers[h])
    /\ handlers[h].yielded = AbsentVal
    /\ handlers[h].found = 1
    /\ consecutive[handlers[h].group] = 1

C8_ObservationIsSilent ==
  \A h \in Handlers :
    LET r == handlers[h]
    IN r.mode = "observation" =>
         /\ r.pc = "done"
         /\ r.will_calls = 0 /\ r.will = NoWill
         /\ r.calls = 0
         /\ r.result = NoResult
         /\ r.yielded = AbsentVal /\ r.outbound = "none"
         /\ r.incs = 0 /\ r.upd_calls = 0
         /\ consecutive[r.group] = (IF r.human THEN 0 ELSE r.found)

C8_Witness ==
  \E h \in Handlers :
    /\ handlers[h].mode = "observation"
    /\ handlers[h].found = 2
    /\ ~handlers[h].human

\* C9: on the threshold path a non-empty completion is asked for once, is
\* the content unchanged with decision_method "threshold", and is the text
\* of the yielded reply; the outbound hook lets it through unless the host
\* counts it as an LLM result and it holds a marker.
C9_ThresholdReplyVerbatim ==
  \A h \in Handlers :
    LET r == handlers[h]
    IN (/\ Generated(r)
        /\ ~r.will.requires_llm_decision
        /\ r.will.should_respond
        /\ r.outcome.kind = "text"
        /\ r.outcome.val # <<>>)
       => /\ r.calls = 1
          /\ r.result.should_reply
          /\ r.result.content = Str(r.outcome.val)
          /\ r.result.decision_method = "threshold"
          /\ r.result.willingness_score = r.will.willingness_score
          /\ r.yielded = Str(r.outcome.val)
          /\ \/ r.pc = "yield"
             \/ r.outbound = "sent"
             \/ r.is_llm /\ HasDeclineMarker(r.outcome.val)

\* A completion that strip() would change went out as it came.
C9_Witness ==
  \E h \in Handlers :
    /\ handlers[h].will.willingness_score = 90
    /\ handlers[h].outcome = Text(HI \o <<" ">>)
    /\ handlers[h].outbound = "sent"
    /\ handlers[h].yielded = Str(HI \o <<" ">>)

\* C10: whatever the configured marker is, a completion that contains
\* "<NO_RESPONSE>" or "[DO_NOT_REPLY]" is declined with a skip_reason on
\* the adjudicated path, and an LLM result that contains one is cleared by
\* the outbound hook.
HasLiteral(text) == Contains(NO_RESPONSE, text) \/ Contains(DO_NOT_REPLY, text)

C10_LiteralsAlwaysRecognized ==
  \A h \in Handlers :
    LET r == handlers[h]
    IN /\ (/\ Generated(r)
           /\ r.will.requires_llm_decision
           /\ r.outcome.kind = "text"
           /\ HasLiteral(r.outcome.val))
          => IsDecline(r.result) /\ Truthy(r.result.skip_reason)
       /\ (r.outbound # "none" /\ r.is_llm /\ HasLiteral(r.yielded.val))
          => r.outbound = "suppressed"

\* "[DO_NOT_REPLY] ok" was declined under a configured marker of its own.
C10_Witness ==
  \E h \in Handlers :
    /\ config.air_reading_no_reply_marker = Str(SKIP)
    /\ handlers[h].outcome = Text(DO_NOT_REPLY \o <<" ">> \o OK)
    /\ handlers[h].will.willingness_score = 52
    /\ IsDecline(handlers[h].result)

\* C11: at the outbound hook every outgoing reply whose text contains a
\* decline marker is cleared as a whole, and every reply without a marker
\* goes out as it was yielded.
C11_OutboundSuppressesEveryMarker ==
  \A h \in Handlers :
    LET r == handlers[h]
    IN r.outbound # "none" =>
         (r.outbound = "suppressed" <=> HasDeclineMarker(r.yielded.val))

\* C12: a message of a group that fails the permission check changes
\* nothing but the invocation itself, which returns at once: no
\* session-origin mapping, no flow, no rate-tracker update, no counter
\* change, no context, willingness or provider call, and no reply.
C12_DeniedGroupUntouched ==
  [][\A h \in Handlers :
       (handlers'[h] # handlers[h] /\ handlers'[h].group \notin config.allowed)
       => /\ handlers[h].pc \in {"idle", "done"}
          /\ UNCHANGED <<consecutive, group_umo, group_flows, rate>>
          /\ handlers'[h] =
               [Fresh(handlers'[h].group, handlers'[h].human) EXCEPT
                  !.pc = "done", !.steps = <<"permission">>]]_vars

\* A message of the denied group came in after the allowed group had built
\* up state, and left that state and its own group's state as they were.
C12_Witness ==
  /\ handlers["h1"].group = "g2"
  /\ handlers["h1"].pc = "done"
  /\ handlers["h1"].human
  /\ consecutive["g1"] = 2
  /\ rate["g1"] = 3
  /\ rate["g2"] = 0
  /\ "g2" \notin group_umo \cup group_flows

\* C13: with invocations of the same group interleaved at their awaits the
\* group's counter never exceeds the cap.
C13_CounterWithinCapInterleaved ==
  \A g \in Groups : consecutive[g] <= MaxConsecutive(config)

\* C14: on the adjudicated path a provider that is missing, raises, or
\* returns empty or whitespace-only text ends in silence: nothing is
\* yielded, the counter is not incremented and on_bot_reply_update is not
\* called.
C14_AdjudicatedFailureIsSilent ==
  \A h \in Handlers :
    LET r == handlers[h]
    IN (/\ Generated(r)
        /\ r.will.requires_llm_decision
        /\ (ProviderFailed(r) \/ Strip(r.outcome.val) = <<>>))
       => /\ r.pc \in {"upd", "done"}
          /\ r.yielded = AbsentVal
          /\ r.outbound = "none"
          /\ r.incs = 0
          /\ r.upd_calls = 0
          /\ consecutive[r.group] = (IF r.human THEN 0 ELSE r.found)

\* A whitespace-only completion, and a provider that raised, each ended an
\* adjudicated invocation with the counter where the message found it.
C14_Witness ==
  \E h \in Handlers :
    /\ handlers[h].will.requires_llm_decision
    /\ handlers[h].outcome \in {Text(<<" ">>), Raise}
    /\ handlers[h].pc = "done"
    /\ handlers[h].found = 1
    /\ ~handlers[h].human

\* C15: when requires_llm_decision is true, the run with the other value
\* of should_respond and everything else equal does not skip either, builds
\* the same prompt, needs the provider alike, gets the same result from
\* generate_response and yields the same reply.
C15_VerdictIgnoredWhenAdjudicated ==
  \A h \in Handlers :
    LET r == handlers[h]
        twin == [r.will EXCEPT !.should_respond = ~@]
    IN r.will.requires_llm_decision =>
         /\ ~WillingnessSkips(r.will)
         /\ WillingnessSkips(twin) = WillingnessSkips(r.will)
         /\ NeedsProvider(twin) = NeedsProvider(r.will)
         /\ r.prompt.no_reply_marker # AbsentVal =>
              BuildAirReadingPrompt(config, twin) = r.prompt
         /\ Generated(r) =>
              /\ GenerateResponse(config, twin, r.outcome) = r.result
              /\ AfterGenerate(r, r.outcome,
                               GenerateResponse(config, twin, r.outcome)).yielded
                   = r.yielded

\* A reply went out although should_respond was false.
C15_Witness ==
  \E h \in Handlers :
    /\ handlers[h].will.requires_llm_decision
    /\ ~handlers[h].will.should_respond
    /\ handlers[h].yielded = Str(HI)
    /\ handlers[h].outbound = "sent"

\* C16: with requires_llm_decision false and should_respond false the
\* invocation has returned before the cap check and the gate, with no
\* provider call and no reply; and generate_response on these flags needs
\* no provider and returns should_reply = false, content = None,
\* decision_method "threshold", whatever a provider would have answered.
C16_ClearNoSkipsGate ==
  \A h \in Handlers :
    LET r == handlers[h]
    IN (/\ r.will_calls > 0
        /\ ~r.will.requires_llm_decision
        /\ ~r.will.should_respond)
       => /\ r.pc = "done"
          /\ r.cap_seen = -1
          /\ r.calls = 0
          /\ r.result = NoResult
          /\ r.yielded = AbsentVal /\ r.outbound = "none"
          /\ r.incs = 0 /\ r.upd_calls = 0
          /\ ~NeedsProvider(r.will)
          /\ \A o \in Outcomes \cup {Missing} :
               LET res == GenerateResponse(config, r.will, o)
               IN /\ ~res.should_reply
                  /\ res.content = NoneVal
                  /\ res.decision_method = "threshold"
                  /\ res.willingness_score = r.will.willingness_score

\* A message of low willingness returned after the willingness step.
C16_Witness ==
  \E h \in Handlers :
    /\ handlers[h].will.willingness_score = 10
    /\ handlers[h].mode = "focus"
    /\ handlers[h].pc = "done"
    /\ handlers[h].found = 0

\* The steps of the pipeline in the order the specification gives them.
PipelineOrder ==
  <<"permission", "umo", "ensure_flow", "on_message", "context", "mode",
    "willingness", "cap", "gate">>

IsPrefix(s, t) == Len(s) <= Len(t) /\ SubSeq(t, 1, Len(s)) = s

\* What a step of invocation h of a permitted group leaves behind.
C17_StepOf(h) ==
  LET r == handlers[h]
      q == handlers'[h]
      n == Len(q.steps)
  IN /\ IsPrefix(q.steps, PipelineOrder)
     /\ n >= 4
     /\ q.group \in group_umo' /\ q.group \in group_flows'
     /\ r.pc \in {"idle", "done"} =>
          /\ n = 4
          /\ rate'[q.group] = rate[q.group] + 1
     /\ r.pc \notin {"idle", "done"} =>
          /\ rate' = rate
          /\ IsPrefix(r.steps, q.steps)
     /\ (q.mode # "none") = (n >= 6)
     /\ (q.will_calls > 0) = (n >= 7)
     /\ (q.cap_seen >= 0) = (n >= 8)
     /\ (q.calls > 0 \/ Generated(q)) => n = 9
     /\ q.pc = "done" =>
          \/ n = 6 /\ ModeSkips(q.mode)
          \/ n = 7 /\ WillingnessSkips(q.will)
          \/ n = 8 /\ CapReached(config, q.cap_seen)
          \/ n = 9 /\ Generated(q)

\* C17: every message of a permitted group takes the steps permission
\* check, session-origin mapping, ensure_flow, rate tracker, context, mode,
\* willingness, cap check, gate in this order, as far as it gets; the rate
\* tracker is given every such message exactly once, on arrival, also when
\* the message ends in observation mode, insufficient willingness or the
\* cap.
C17_StepsInOrder ==
  [][\A h \in Handlers :
       (handlers'[h] # handlers[h] /\ handlers'[h].group \in config.allowed)
       => C17_StepOf(h)]_vars

\* The fourth message ended at the cap check, and the rate tracker has all
\* four.
C17_Witness ==
  \E h \in Handlers :
    /\ handlers[h].steps = SubSeq(PipelineOrder, 1, 8)
    /\ handlers[h].pc = "done"
    /\ rate[handlers[h].group] = 4

\* A message ended in observation mode with the rate tracker updated.
C17_WitnessObservation ==
  \E h \in Handlers :
    /\ handlers[h].steps = SubSeq(PipelineOrder, 1, 6)
    /\ handlers[h].pc = "done"
    /\ rate[handlers[h].group] = 1

\* What a lookup of a named persona does, by the record it finds.
C18_LookupStep ==
  LET ret == persona_ret'
      name == ret.persona_name
      rec == persona_cache[name]
      age == clock - rec.timestamp
  IN /\ ret.at = clock
     /\ ret.hit =>
          /\ rec # NoRecord /\ age < PERSONA_TTL
          /\ ret.enabled /\ ret.persona_prompt = rec.prompt
          /\ persona_cache' = persona_cache
     /\ (rec # NoRecord /\ age < PERSONA_TTL) => ret.hit
     /\ (~ret.hit /\ Truthy(personas[name])) =>
          /\ ret.enabled /\ ret.persona_prompt = personas[name].val
          /\ persona_cache' =
               [persona_cache EXCEPT ![name] =
                  [prompt |-> personas[name].val, timestamp |-> clock]]
     /\ (~ret.hit /\ ~Truthy(personas[name])) =>
          /\ ~ret.enabled
          /\ persona_cache' = persona_cache
     /\ ret.enabled => ret.stale < PERSONA_TTL

\* C18: a lookup returns the cached prompt exactly when the record of that
\* persona name is younger than 300 seconds, and then leaves the record and
\* its timestamp alone; a lookup that finds no such record and resolves a
\* non-empty prompt writes the record with that prompt and the current
\* time; one that resolves none returns no prompt and leaves the cache
\* alone.  Every prompt returned was the persona's prompt less than 300
\* seconds before.
C18_CacheTimeBounded ==
  [][(persona_ret' # persona_ret /\ persona_ret'.persona_name # "")
       => C18_LookupStep]_vars

\* C18 as stated: every lookup of a named persona that is not served from
\* the cache rewrites the record with the current time.
C18_MissAlwaysRewrites ==
  (/\ persona_ret.at >= 0
   /\ persona_ret.persona_name # ""
   /\ ~persona_ret.hit)
  => persona_cache[persona_ret.persona_name].timestamp = persona_ret.at

\* A hit returned a prompt the persona had lost two ticks before.
C18_Witness ==
  /\ persona_ret.hit
  /\ persona_ret.stale = 2 * TickStep

\* A lookup of p2 wrote its record after the record of p1 had run out, and
\* left that record as it was.
C18_WitnessRewritten ==
  /\ persona_ret.enabled /\ ~persona_ret.hit
  /\ persona_ret.persona_name = "p2"
  /\ persona_ret.persona_prompt = <<"B">>
  /\ persona_ret.at >= PERSONA_TTL
  /\ persona_cache["p1"].timestamp = 0
  /\ persona_cache["p1"].prompt = <<"A">>

\* C19: over both entry points a group has a session-origin mapping or a
\* heartbeat flow only if it passes the permission check.
C19_OnlyPermittedGroupsHaveState ==
  \A g \in group_umo \cup group_flows : g \in config.allowed

\* C20: whatever the configured marker is, the marker the adjudication
\* prompt asks for is one of the markers the gate looks for, and a
\* completion that is exactly that marker is declined.
C20_PromptMarkerRecognized ==
  \A h \in Handlers :
    LET r == handlers[h]
        asked == r.prompt.no_reply_marker
    IN asked # AbsentVal =>
         /\ \E k \in 1..Len(Markers(config)) : Markers(config)[k] = asked
         /\ (Generated(r) /\ r.outcome = Text(asked.val))
              => IsDecline(r.result)

\* C21: for every completion and every marker configuration the gate
\* declines exactly when the outbound hook would clear an LLM result with
\* the same text.
C21_GateAgreesWithOutboundCheck ==
  \A h \in Handlers :
    LET r == handlers[h]
    IN (/\ Generated(r)
        /\ r.will.requires_llm_decision
        /\ r.outcome.kind = "text")
       => (IsDecline(r.result)
             <=> OutboundSuppresses(config, TRUE, r.outcome.val))

\* C22: terminate stops the flows before it clears the state, and an
\* invocation that was suspended at an await when terminate ran (context
\* analysis, willingness, provider call) yields no reply, does not
\* increment the counter and does not call on_bot_reply_update afterwards,
\* so the counters stay cleared.
C22_NothingAfterTerminate ==
  terminated # NotTerminated =>
    /\ terminated.steps = <<"stop_all_flows", "clear_all_state">>
    /\ \A h \in Handlers :
         terminated.at[h] \in {"ctx", "will", "llm"} =>
           /\ handlers[h].yielded = AbsentVal
           /\ handlers[h].incs = 0
           /\ handlers[h].upd_calls = 0
           /\ consecutive[handlers[h].group] = 0

====
